---- MODULE Spec2Model ----
(***************************************************************************)
(* Model of fetch_icons.py: the bookmark-icon download pipeline.           *)
(*                                                                         *)
(* Text is modelled as a sequence of characters (one string each), so that *)
(* strip(), unquote(), the regular-expression clean-up, urlparse() and the *)
(* f-string that builds a file name are computed character by character.   *)
(* The output directory is a function from file names to files; a file is  *)
(* the sequence of chunks it holds.  Every worker thread of the            *)
(* ThreadPoolExecutor is a task record whose field st is the position of   *)
(* download_icon; one action is one access to shared state (the network,   *)
(* an exists() call, an open(), one chunk written, the future's result).   *)
(***************************************************************************)
EXTENDS Integers, Sequences, FiniteSets, TLC

(* ------------------------------ bounds -------------------------------- *)
\* longest bookmark list the model loads
MaxRecords == 2
\* largest --workers value tried (0 is tried too)
MaxWorkers == 2
\* number of 8 KiB chunks in a response body
BodyChunks == 2
\* number of OS-level errors injected in one run, or in one sequence of runs
MaxFaults == 1
\* longest text, over the whole alphabet, a helper function is called with
MaxTextLen == 3
\* number of runs of the program on one record file
MaxRuns == 2

(* ------------------------- program constants -------------------------- *)
MAX_WORKERS == 8
SafeMaxLen == 120
AsciiMaxLen == 80
ExtMaxLen == 5

(* ------------------------------- text --------------------------------- *)
\* characters that str.isspace() accepts (the model's alphabet has one)
IsSpace(c) == c = " "
\* the token "ctl" stands for the control character U+0001, which is
\* neither whitespace nor a word character
IsControl(c) == c = "ctl"
\* the model's alphabet has one character outside ASCII: the token "ya"
\* stands for the Cyrillic letter U+042F
IsAscii(c) == c # "ya"
\* \w of the re module: letters and digits of any script, and underscore;
\* every character of the alphabet that is not listed here is one
NonWordChars == {" ", "/", "\\", "%", ".", "-", ":", "?", "#", "[", "]", "!",
                 "&", "=", "+", ";", ",", "@", "*", "(", ")", "'", "~", "$",
                 "ctl"}
IsWord(c) == c \notin NonWordChars
IsAsciiAlnum(c) == IsWord(c) /\ IsAscii(c) /\ c # "_"

RECURSIVE LStrip(_)
LStrip(s) == IF s # <<>> /\ IsSpace(Head(s)) THEN LStrip(Tail(s)) ELSE s

RECURSIVE RStrip(_)
RStrip(s) ==
  IF s # <<>> /\ IsSpace(s[Len(s)]) THEN RStrip(SubSeq(s, 1, Len(s) - 1)) ELSE s

\* str.strip()
Strip(s) == RStrip(LStrip(s))

\* the value of a two-digit percent escape, "" when the digits are not hex
HexValue(h1, h2) ==
  IF h1 = "2" /\ h2 = "F" THEN "/"
  ELSE IF h1 = "2" /\ h2 = "0" THEN " "
  ELSE IF h1 = "2" /\ h2 = "5" THEN "%"
  ELSE IF h1 = "4" /\ h2 = "1" THEN "A"
  ELSE ""

\* position k of s starts a percent escape with two hex digits
IsEscape(s, k) ==
  k >= 1 /\ k + 2 <= Len(s) /\ s[k] = "%" /\ HexValue(s[k + 1], s[k + 2]) # ""

\* urllib.parse.unquote: one left-to-right pass, bad escapes are kept.  A
\* hex digit is never '%', so no escape starts inside another one: an
\* escape gives its value, its two digits give nothing, and every other
\* character stays
unquote(s) ==
  LET decoded == [k \in 1..Len(s) |->
                    IF IsEscape(s, k) THEN HexValue(s[k + 1], s[k + 2])
                    ELSE IF IsEscape(s, k - 1) \/ IsEscape(s, k - 2) THEN ""
                    ELSE s[k]]
  IN  SelectSeq(decoded, LAMBDA c : c # "")

\* str.replace('/', '_').replace('\\', '_')
ReplaceSeparators(s) ==
  [k \in 1..Len(s) |-> IF s[k] \in {"/", "\\"} THEN "_" ELSE s[k]]

\* re.sub(r'\s+', '_', s): every run of whitespace becomes one underscore,
\* put in the place of the first character of the run
CollapseSpace(s) ==
  LET collapsed == [k \in 1..Len(s) |->
                      IF ~IsSpace(s[k]) THEN s[k]
                      ELSE IF k > 1 /\ IsSpace(s[k - 1]) THEN ""
                      ELSE "_"]
  IN  SelectSeq(collapsed, LAMBDA c : c # "")

\* re.sub(r'[^\w\-\._%]', '', s): the percent sign is kept too
KeepNameCharsAndPercent(s) ==
  SelectSeq(s, LAMBDA c : IsWord(c) \/ c \in {"-", ".", "_", "%"})

\* re.sub(r'[^\w\-\._]', '', s)
KeepNameChars(s) == SelectSeq(s, LAMBDA c : IsWord(c) \/ c \in {"-", ".", "_"})

\* name[:max_len]
Truncate(s, max_len) == IF Len(s) > max_len THEN SubSeq(s, 1, max_len) ELSE s

\* the function without its last test: an empty result is returned as it is
safe_filename_no_default(name, max_len) ==
  IF name = <<>> THEN <<"u", "n", "n", "a", "m", "e", "d">>
  ELSE Truncate(KeepNameChars(CollapseSpace(
         ReplaceSeparators(Strip(unquote(name))))), max_len)

safe_filename_unicode(name, max_len) ==
  IF name = <<>> THEN <<"u", "n", "n", "a", "m", "e", "d">>
  ELSE LET cleaned == Truncate(KeepNameChars(CollapseSpace(
                        ReplaceSeparators(Strip(unquote(name))))), max_len)
       IN  IF cleaned = <<>> THEN <<"f", "i", "l", "e">> ELSE cleaned

ascii_fallback_name(name, max_len) ==
  LET ascii_only == SelectSeq(name, IsAscii)
      kept == SelectSeq(ascii_only,
                        LAMBDA c : IsAsciiAlnum(c) \/ c \in {"-", ".", "_"})
      stripped == Strip(kept)
      nonempty == IF stripped = <<>> THEN <<"f", "i", "l", "e">> ELSE stripped
  IN  Truncate(nonempty, max_len)

(* ------------------------------- URLs --------------------------------- *)
\* index of the first element of s at or after k that lies in cs, else 0
FindFrom(s, k, cs) ==
  LET hits == {j \in k..Len(s) : s[j] \in cs}
  IN  IF hits = {} THEN 0 ELSE CHOOSE j \in hits : \A h \in hits : j <= h

\* index of the last element of s at or before k that lies in cs, else 0
FindLast(s, k, cs) ==
  LET hits == {j \in 1..k : s[j] \in cs}
  IN  IF hits = {} THEN 0 ELSE CHOOSE j \in hits : \A h \in hits : j >= h

\* the part of a URL after "scheme:" (urlsplit's scheme rule: the text
\* before the first ':' is a scheme when it is made of letters and digits)
AfterScheme(u) ==
  LET c == FindFrom(u, 1, {":"})
  IN  IF c > 1 /\ \A k \in 1..(c - 1) : IsAsciiAlnum(u[k])
      THEN SubSeq(u, c + 1, Len(u)) ELSE u

HasNetloc(u) ==
  LET r == AfterScheme(u) IN Len(r) >= 2 /\ r[1] = "/" /\ r[2] = "/"

\* urlsplit's netloc: from after '//' to the first of '/', '?', '#'
Netloc(u) ==
  LET r == AfterScheme(u)
      e == FindFrom(r, 3, {"/", "?", "#"})
  IN  IF ~HasNetloc(u) THEN <<>>
      ELSE IF e = 0 THEN SubSeq(r, 3, Len(r)) ELSE SubSeq(r, 3, e - 1)

\* urlsplit raises ValueError("Invalid IPv6 URL") on an unbalanced bracket
UrlparseRaises(u) ==
  LET n == Netloc(u)
  IN  (FindFrom(n, 1, {"["}) # 0) # (FindFrom(n, 1, {"]"}) # 0)

\* urlparse(u).hostname: the netloc without its port; <<>> stands for None
Hostname(u) ==
  LET n == Netloc(u)
      c == FindFrom(n, 1, {":"})
  IN  IF c = 0 THEN n ELSE SubSeq(n, 1, c - 1)

\* urlparse(u).path
UrlPath(u) ==
  LET r == AfterScheme(u)
      rest == IF HasNetloc(u)
              THEN LET e == FindFrom(r, 3, {"/", "?", "#"})
                   IN  IF e = 0 THEN <<>> ELSE SubSeq(r, e, Len(r))
              ELSE r
      q == FindFrom(rest, 1, {"?", "#"})
  IN  IF q = 0 THEN rest ELSE SubSeq(rest, 1, q - 1)

\* os.path.splitext(p)[1]: from the last dot of the last component, unless
\* that component has only leading dots before it
SplitExt(p) ==
  LET sep == FindLast(p, Len(p), {"/"})
      dot == FindLast(p, Len(p), {"."})
  IN  IF dot > sep /\ \E k \in (sep + 1)..(dot - 1) : p[k] # "."
      THEN SubSeq(p, dot, Len(p)) ELSE <<>>

\* ext_from_url: '' when urlparse raises (str.lower() is the identity on
\* the model's lower-case alphabet)
ext_from_url(url) == IF UrlparseRaises(url) THEN <<>> ELSE SplitExt(UrlPath(url))

\* CONTENT_TYPE_EXT, keyed by the normalised Content-Type
ContentTypes == {"image/png", "image/x-icon", "image/vnd.microsoft.icon",
                 "image/jpeg", "image/jpg", "image/svg+xml", "image/webp",
                 "image/gif"}
CONTENT_TYPE_EXT(ct) ==
  CASE ct = "image/png" -> <<".", "p", "n", "g">>
    [] ct \in {"image/x-icon", "image/vnd.microsoft.icon"} -> <<".", "i", "c", "o">>
    [] ct \in {"image/jpeg", "image/jpg"} -> <<".", "j", "p", "g">>
    [] ct = "image/svg+xml" -> <<".", "s", "v", "g">>
    [] ct = "image/webp" -> <<".", "w", "e", "b", "p">>
    [] ct = "image/gif" -> <<".", "g", "i", "f">>

\* the url without its type prefix "scheme:" (urllib.parse._splittype: the
\* text before the first ':' when it holds no '/')
AfterType(u) ==
  LET c == FindFrom(u, 1, {":"})
  IN  IF c > 1 /\ FindFrom(SubSeq(u, 1, c - 1), 1, {"/"}) = 0
      THEN SubSeq(u, c + 1, Len(u)) ELSE u

\* mimetypes.guess_type(url)[0] for the extensions of the model's URLs:
\* the extension is split off the whole text after the type prefix, with
\* no call of urlparse
GuessType(url) ==
  LET e == SplitExt(AfterType(url))
  IN  IF e = <<".", "i", "c", "o">> THEN "image/vnd.microsoft.icon"
      ELSE IF e = <<".", "p", "n", "g">> THEN "image/png"
      ELSE ""

\* choose_extension, ct being the header already split at ';', stripped
\* and lower-cased
choose_extension(ct, url) ==
  IF ct \in ContentTypes THEN CONTENT_TYPE_EXT(ct)
  ELSE LET ext == ext_from_url(url)
       IN  IF ext # <<>> /\ Len(ext) <= ExtMaxLen THEN ext
           ELSE IF GuessType(url) \in ContentTypes
                THEN CONTENT_TYPE_EXT(GuessType(url))
                ELSE <<".", "p", "n", "g">>

(* ----------------------------- the inputs ----------------------------- *)
TitleA == <<"a">>
TitleCyrillic == <<"ya">>
UrlGood == <<"h", ":", "/", "/", "e">>
UrlBadBracket == <<"h", ":", "/", "/", "[">>
IconUrl == <<"h", ":", "/", "/", "e", "/", "i", ".", "i", "c", "o">>
IconBlank == <<" ">>

\* the bookmark objects a list is drawn from: a plain one, one with a title
\* outside ASCII, one whose url makes urlparse raise inside the task, and
\* one whose icon is blank
RecordPool ==
  { [title |-> TitleA, url |-> UrlGood, icon |-> IconUrl],
    [title |-> TitleCyrillic, url |-> UrlGood, icon |-> IconUrl],
    [title |-> <<>>, url |-> UrlBadBracket, icon |-> IconUrl],
    [title |-> TitleA, url |-> UrlGood, icon |-> IconBlank] }

SeqsUpTo(S, n) == UNION {[1..k -> S] : k \in 0..n}
Inputs == SeqsUpTo(RecordPool, MaxRecords)

\* what session.get can produce: an exception, or a status with the
\* normalised Content-Type of the response
Responses ==
  { [raised |-> TRUE, status |-> 0, ct |-> ""],
    [raised |-> FALSE, status |-> 404, ct |-> ""],
    [raised |-> FALSE, status |-> 200, ct |-> "image/x-icon"],
    [raised |-> FALSE, status |-> 200, ct |-> "text/html"] }

\* session.get raises MissingSchema, a RequestException, for a url without
\* a scheme, such as the local path a former run stored
ResponsesTo(url) ==
  IF AfterScheme(url) = url THEN {r \in Responses : r.raised} ELSE Responses

\* the body of the response to the request of record i, chunk by chunk
Body(i) == [k \in 1..BodyChunks |-> <<i, k>>]
\* a chunk-sized gap left in a file by a write past its end
Hole == <<0, 0>>
\* the content of a file that was in the output directory before the run
OldContent == <<<<0, 1>>>>

\* the output directory, and the directory of the record file
OutdirInside == <<"/", "d", "/", "o">>
OutdirOutside == <<"/", "o">>
InputParent == <<"/", "d">>

(* ------------------------------ the state ----------------------------- *)
VARIABLES
  pc,             \* position of process_all / main
  fsys,           \* the record file, its .bak and its .tmp
  outdirExists,   \* whether the output directory exists
  files,          \* the files of the output directory, by name
  outdir,         \* --outdir, resolved
  backup,         \* not --no-backup
  workers,        \* --workers
  write_relative, \* --relative
  orig,           \* the list the record file held when the run started
  data,           \* the list in memory
  results,        \* the list of (index, ok, info)
  tasks,          \* the indices with an icon URL, in order
  submitted,      \* how many of them exe.submit has queued
  task,           \* the future and the thread of each index
  merged,         \* how many results the merge loop has applied
  exitStatus,     \* the exit status of the process, -1 while it runs
  faults,         \* OS-level errors injected so far
  run,            \* which invocation of main on the record file this is
  pure            \* a call of a helper function on its own: input and result

vars == <<pc, fsys, outdirExists, files, outdir, backup, workers,
          write_relative, orig, data, results, tasks, submitted, task, merged,
          exitStatus, faults, run, pure>>

Absent == [kind |-> "absent", recs |-> <<>>, complete |-> FALSE]
NotAList == [kind |-> "notlist", recs |-> <<>>, complete |-> TRUE]
ListFile(recs) == [kind |-> "list", recs |-> recs, complete |-> TRUE]
PartialFile(recs) == [kind |-> "list", recs |-> recs, complete |-> FALSE]

NoInfo == [kind |-> "", path |-> <<>>]
IdleTask == [st |-> "none", name |-> <<>>, ext |-> <<>>, idx |-> 0,
             path |-> <<>>, pos |-> 0, off |-> 0, att |-> 0,
             ok |-> FALSE, info |-> NoInfo]

\* a file of the output directory: its chunks, the tasks of this run that
\* opened it for writing, and whether it was there before the run
NewFile == [content |-> <<>>, openers |-> {}, pre |-> FALSE]
OldFile == [content |-> OldContent, openers |-> {}, pre |-> TRUE]
OldName == TitleA \o <<".", "i", "c", "o">>
EmptyDir == [n \in {} |-> NewFile]

WorkerChoices == 0..MaxWorkers

\* no helper function is being called on its own
NoCall == [op |-> "none", text |-> <<>>, arg |-> <<>>, ct |-> "", out |-> <<>>]

\* the options of a run: backup, --relative, and the output directory inside
\* or outside the directory of the record file.  backup is read by the
\* copy alone and the other two by the merge loop alone, so every value of
\* each is tried and not every combination
RunModes == {<<TRUE, FALSE, OutdirInside>>, <<FALSE, TRUE, OutdirInside>>,
             <<TRUE, TRUE, OutdirOutside>>}

Init ==
  /\ pc = "Loading"
  /\ \E f \in {Absent, NotAList} \cup {ListFile(r) : r \in Inputs} :
       /\ fsys = [p \in {"input", "bak", "tmp"} |->
                    IF p = "input" THEN f ELSE Absent]
       /\ orig = f.recs
  /\ outdirExists \in BOOLEAN
  /\ files = IF outdirExists THEN [n \in {OldName} |-> OldFile] ELSE EmptyDir
  /\ \E m \in RunModes :
       backup = m[1] /\ write_relative = m[2] /\ outdir = m[3]
  /\ workers \in WorkerChoices
  /\ data = <<>>
  /\ results = <<>>
  /\ tasks = <<>>
  /\ submitted = 0
  /\ task = [i \in 1..Len(orig) |-> IdleTask]
  /\ merged = 0
  /\ exitStatus = -1
  /\ faults = 0
  /\ run = 1
  /\ pure = NoCall

(* --------------------------- the coordinator -------------------------- *)
\* main's except clause: print the error and sys.exit(2)
Fail ==
  /\ pc' = "Failed"
  /\ exitStatus' = 2

\* an OS-level error may be injected while the budget lasts
MayFault == faults < MaxFaults

\* process_all without the isinstance check: whatever json.load returned
\* is taken for the list
LoadingNoShapeCheck ==
  /\ pc = "Loading"
  /\ IF fsys["input"].kind = "absent"
     THEN Fail /\ UNCHANGED <<outdirExists, data>>
     ELSE /\ outdirExists' = TRUE
          /\ data' = fsys["input"].recs
          /\ pc' = "BackingUp"
          /\ UNCHANGED exitStatus
  /\ UNCHANGED <<fsys, files, outdir, backup, workers, write_relative, orig,
                 run, pure, results, tasks, submitted, task, merged, faults>>

\* process_all up to the isinstance check
Loading ==
  /\ pc = "Loading"
  /\ IF fsys["input"].kind = "absent"
     THEN Fail /\ UNCHANGED <<outdirExists, data>>
     ELSE /\ outdirExists' = TRUE
          /\ IF fsys["input"].kind = "list"
             THEN /\ data' = fsys["input"].recs
                  /\ pc' = "BackingUp"
                  /\ UNCHANGED exitStatus
             ELSE Fail /\ UNCHANGED data
  /\ UNCHANGED <<fsys, files, outdir, backup, workers, write_relative, orig,
                 run, pure, results, tasks, submitted, task, merged, faults>>

\* the copy made only when there is no .bak file yet
BackupCopyKeepOld(enabled) ==
  IF enabled /\ fsys["bak"] = Absent
  THEN [fsys EXCEPT !["bak"] = fsys["input"]] ELSE fsys

\* the copy made when backup is not set
BackupCopyInverted(enabled) ==
  IF ~enabled THEN [fsys EXCEPT !["bak"] = fsys["input"]] ELSE fsys

\* shutil.copy2(input_path, bak), when backup is set
BackupCopy(enabled) ==
  IF enabled THEN [fsys EXCEPT !["bak"] = fsys["input"]] ELSE fsys

BackingUp ==
  /\ pc = "BackingUp"
  /\ \/ /\ fsys' = BackupCopy(backup)
        /\ pc' = "Partition"
        /\ UNCHANGED <<exitStatus, faults>>
     \/ /\ backup /\ MayFault
        /\ fsys' = [fsys EXCEPT !["bak"] = PartialFile(<<>>)]
        /\ faults' = faults + 1
        /\ Fail
  /\ UNCHANGED <<outdirExists, files, outdir, backup, workers, write_relative,
                 orig, run, pure, data, results, tasks, submitted, task, merged>>

\* the test without strip(): a blank icon counts as an icon URL
IsEmptyIconRaw(item) == item.icon = <<>>

\* the test of the partition loop: no icon URL after strip()
IsEmptyIcon(item) == Strip(item.icon) = <<>>

NoIconResult(i) ==
  [idx |-> i, ok |-> FALSE, info |-> [kind |-> "no_icon_url", path |-> <<>>]]

\* the loop over enumerate(data): the results marked at once ...
RECURSIVE SkippedFrom(_, _)
SkippedFrom(d, i) ==
  IF i > Len(d) THEN <<>>
  ELSE (IF IsEmptyIcon(d[i]) THEN <<NoIconResult(i)>> ELSE <<>>)
         \o SkippedFrom(d, i + 1)

\* ... and the (i, item) pairs kept as tasks
RECURSIVE TasksFrom(_, _)
TasksFrom(d, i) ==
  IF i > Len(d) THEN <<>>
  ELSE (IF IsEmptyIcon(d[i]) THEN <<>> ELSE <<i>>) \o TasksFrom(d, i + 1)

\* the partition loop, and ThreadPoolExecutor(max_workers=workers), which
\* raises ValueError when workers <= 0
Partition ==
  /\ pc = "Partition"
  /\ results' = SkippedFrom(data, 1)
  /\ tasks' = TasksFrom(data, 1)
  /\ IF tasks' = <<>> THEN pc' = "Merging" /\ UNCHANGED exitStatus
     ELSE IF workers <= 0 THEN Fail
     ELSE pc' = "Submitting" /\ UNCHANGED exitStatus
  /\ UNCHANGED <<fsys, outdirExists, files, outdir, backup, workers,
                 write_relative, orig, run, pure, data, submitted, task, merged, faults>>

\* one exe.submit of the dict comprehension
Submit ==
  /\ pc = "Submitting"
  /\ submitted < Len(tasks)
  /\ submitted' = submitted + 1
  /\ task' = [task EXCEPT ![tasks[submitted + 1]].st = "queued"]
  /\ pc' = IF submitted' = Len(tasks) THEN "Collecting" ELSE pc
  /\ UNCHANGED <<fsys, outdirExists, files, outdir, backup, workers,
                 write_relative, orig, run, pure, data, results, tasks, merged,
                 exitStatus, faults>>

(* ------------------------------ the tasks ----------------------------- *)
Indices == 1..Len(orig)

\* the positions of download_icon between its start and its return
ActiveStates == {"get", "exists", "open", "write"}
Running == Cardinality({i \in Indices : task[i].st \in ActiveStates})

\* a pool that runs one work item at a time whatever max_workers is
WorkerFreeSingle(n) == Running < 1

\* one thread more than max_workers
WorkerFreeOffByOne(n) == Running <= n

\* a worker thread is free to take a work item from the queue
WorkerFree(n) == Running < n

\* the queue of the executor is first in, first out
HeadOfQueue(i) ==
  /\ task[i].st = "queued"
  /\ \A j \in Indices : task[j].st = "queued" => i <= j

Returned(t, ok, kind, path) ==
  [t EXCEPT !.st = "done", !.ok = ok, !.info = [kind |-> kind, path |-> path]]

\* the future holds an exception instead of a result
Raised(t) == [t EXCEPT !.st = "raised"]

\* title or hostname or 'bookmark', before it is sanitised
BaseText(item) ==
  IF Strip(item.title) # <<>> THEN Strip(item.title)
  ELSE IF Hostname(Strip(item.url)) # <<>> THEN Hostname(Strip(item.url))
  ELSE <<"b", "o", "o", "k", "m", "a", "r", "k">>

\* f"{base_name}{ext}" and f"{base_name}_{idx}{ext}"
DigitChars == <<"0", "1", "2", "3", "4", "5", "6", "7", "8", "9">>
Digits(n) ==
  IF n < 10 THEN <<DigitChars[n + 1]>>
  ELSE <<DigitChars[(n \div 10) + 1], DigitChars[(n % 10) + 1]>>
FileName(base, ext) == base \o ext
FileNameIdx(base, idx, ext) == base \o <<"_">> \o Digits(idx) \o ext

\* str(filepath.resolve())
Resolved(name) == outdir \o <<"/">> \o name

OthersUnchanged ==
  UNCHANGED <<pc, fsys, outdirExists, outdir, backup, workers, write_relative,
              orig, run, pure, data, results, tasks, submitted, merged, exitStatus>>

\* a worker takes the task: download_icon up to the request
TaskStart(i) ==
  /\ HeadOfQueue(i)
  /\ WorkerFree(workers)
  /\ LET item == data[i]
         t == task[i]
     IN  task' = [task EXCEPT ![i] =
           IF Strip(item.icon) = <<>>
           THEN Returned(t, FALSE, "no_icon_url", <<>>)
           ELSE IF Strip(item.title) = <<>> /\ UrlparseRaises(Strip(item.url))
           THEN Raised(t)
           ELSE [t EXCEPT !.st = "get",
                          !.name = safe_filename_unicode(BaseText(item),
                                                         SafeMaxLen)]]
  /\ UNCHANGED <<files, faults>>
  /\ OthersUnchanged

\* session.get and what follows it up to the first exists()
TaskGet(i) ==
  /\ task[i].st = "get"
  /\ \E r \in ResponsesTo(Strip(data[i].icon)) :
       LET t == task[i]
           ext == choose_extension(r.ct, Strip(data[i].icon))
       IN  task' = [task EXCEPT ![i] =
             IF r.raised THEN Returned(t, FALSE, "error", <<>>)
             ELSE IF r.status # 200 THEN Returned(t, FALSE, "http", <<>>)
             ELSE [t EXCEPT !.st = "exists", !.ext = ext, !.idx = 1,
                            !.att = 1, !.path = FileName(t.name, ext)]]
  /\ UNCHANGED <<files, faults>>
  /\ OthersUnchanged

\* the fallback without its own "while filepath.exists()": the first
\* candidate of the second attempt is opened as it is
TaskExistsFirstOnly(i) ==
  /\ task[i].st = "exists"
  /\ LET t == task[i]
     IN  task' = [task EXCEPT ![i] =
           IF t.att = 1 /\ t.path \in DOMAIN files
           THEN [t EXCEPT !.path = FileNameIdx(t.name, t.idx, t.ext),
                          !.idx = t.idx + 1]
           ELSE [t EXCEPT !.st = "open"]]
  /\ UNCHANGED <<files, faults>>
  /\ OthersUnchanged

\* one test of "while filepath.exists()", of either attempt
TaskExists(i) ==
  /\ task[i].st = "exists"
  /\ LET t == task[i]
     IN  task' = [task EXCEPT ![i] =
           IF t.path \in DOMAIN files
           THEN [t EXCEPT !.path = FileNameIdx(t.name, t.idx, t.ext),
                          !.idx = t.idx + 1]
           ELSE [t EXCEPT !.st = "open"]]
  /\ UNCHANGED <<files, faults>>
  /\ OthersUnchanged

\* the fallback as a loop: every OSError starts another attempt
OnOSErrorRetryLoop(t) ==
  LET ascii_base == ascii_fallback_name(t.name, AsciiMaxLen)
  IN  [t EXCEPT !.st = "exists", !.name = ascii_base,
                !.idx = 1, !.path = FileName(ascii_base, t.ext)]

\* the fallback with the name left as it was
OnOSErrorSameName(t) ==
  IF t.att = 1
  THEN [t EXCEPT !.st = "exists", !.att = 2, !.idx = 1,
                 !.path = FileName(t.name, t.ext)]
  ELSE Returned(t, FALSE, "write_error", <<>>)

\* the except clauses: OSError on the first attempt starts the ASCII
\* fallback, any exception on the second returns write_error
OnOSError(t) ==
  IF t.att = 1
  THEN LET ascii_base == ascii_fallback_name(t.name, AsciiMaxLen)
       IN  [t EXCEPT !.st = "exists", !.att = 2, !.name = ascii_base,
                     !.idx = 1, !.path = FileName(ascii_base, t.ext)]
  ELSE Returned(t, FALSE, "write_error", <<>>)

\* open(path, 'wb') creates the file or truncates it
Opened(fs, path, i) ==
  [n \in DOMAIN fs \cup {path} |->
     IF n = path
     THEN [content |-> <<>>,
           openers |-> (IF n \in DOMAIN fs THEN fs[n].openers ELSE {}) \cup {i},
           pre |-> n \in DOMAIN fs /\ fs[n].pre]
     ELSE fs[n]]

\* a file system may refuse a name with a character outside ASCII
MayRejectName(name) == \E k \in 1..Len(name) : ~IsAscii(name[k])

\* open(filepath, 'wb'), of either attempt: the file is there and empty, or
\* OSError is raised because the name is refused or for any other reason
TaskOpen(i) ==
  /\ task[i].st = "open"
  /\ LET t == task[i]
     IN  \/ /\ files' = Opened(files, t.path, i)
            /\ task' = [task EXCEPT ![i] = [t EXCEPT !.st = "write", !.off = 0]]
            /\ UNCHANGED faults
         \/ /\ MayRejectName(t.path)
            /\ task' = [task EXCEPT ![i] = OnOSError(t)]
            /\ UNCHANGED <<files, faults>>
         \/ /\ MayFault
            /\ faults' = faults + 1
            /\ task' = [task EXCEPT ![i] = OnOSError(t)]
            /\ UNCHANGED files
  /\ OthersUnchanged

\* f.write(chunk) at the handle's own offset: the file grows, with a gap
\* when it was truncated under the handle, or is overwritten in place
WriteAt(content, off, chunk) ==
  [k \in 1..(IF Len(content) > off + 1 THEN Len(content) ELSE off + 1) |->
     IF k = off + 1 THEN chunk
     ELSE IF k <= Len(content) THEN content[k] ELSE Hole]

\* one turn of "for chunk in resp.iter_content()": the chunk is taken from
\* the stream and written, or the write raises OSError
TaskWrite(i) ==
  /\ task[i].st = "write"
  /\ task[i].pos < BodyChunks
  /\ LET t == task[i]
         chunk == Body(i)[t.pos + 1]
     IN  \/ /\ files' = [files EXCEPT ![t.path].content =
                           WriteAt(files[t.path].content, t.off, chunk)]
            /\ task' = [task EXCEPT ![i] =
                          [t EXCEPT !.pos = t.pos + 1, !.off = t.off + 1]]
            /\ UNCHANGED faults
         \/ /\ MayFault
            /\ faults' = faults + 1
            /\ task' = [task EXCEPT ![i] = OnOSError([t EXCEPT !.pos = t.pos + 1])]
            /\ UNCHANGED files
  /\ OthersUnchanged

\* the stream is exhausted: the file is closed and the path returned
TaskFinish(i) ==
  /\ task[i].st = "write"
  /\ task[i].pos = BodyChunks
  /\ task' = [task EXCEPT ![i] =
                Returned(task[i], TRUE, "path", Resolved(task[i].path))]
  /\ UNCHANGED <<files, faults>>
  /\ OthersUnchanged

(* ------------------------ collecting and merging ---------------------- *)
\* the loop is left at the first future yielded
FetchingOverFirst(t) == \E k \in 1..Len(tasks) : t[tasks[k]].st = "collected"

\* as_completed has yielded every future of the dict: t is the task array
FetchingOver(t) == \A k \in 1..Len(tasks) : t[tasks[k]].st = "collected"
AllCollected == FetchingOver(task)

\* the outcome filed under its place in the order of completion and not
\* under futures[fut]
ResultOfByPosition(i, t) ==
  IF t.st = "raised"
  THEN [idx |-> Len(results) + 1, ok |-> FALSE,
        info |-> [kind |-> "exception", path |-> <<>>]]
  ELSE [idx |-> Len(results) + 1, ok |-> t.ok, info |-> t.info]

\* what the body of the as_completed loop appends for a finished future:
\* its result, or (idx, False, 'exception:...') when fut.result() raises
ResultOf(i, t) ==
  IF t.st = "raised"
  THEN [idx |-> i, ok |-> FALSE, info |-> [kind |-> "exception", path |-> <<>>]]
  ELSE [idx |-> i, ok |-> t.ok, info |-> t.info]

\* the loop body without its try/except: an exception of fut.result()
\* leaves process_all
CollectNoCatch(i) ==
  /\ pc = "Collecting"
  /\ task[i].st \in {"done", "raised"}
  /\ task' = [task EXCEPT ![i].st = "collected"]
  /\ IF task[i].st = "raised"
     THEN Fail /\ UNCHANGED results
     ELSE /\ results' = Append(results, ResultOf(i, task[i]))
          /\ pc' = IF \A k \in 1..Len(tasks) : task'[tasks[k]].st = "collected"
                   THEN "Merging" ELSE pc
          /\ UNCHANGED exitStatus
  /\ UNCHANGED <<fsys, outdirExists, files, outdir, backup, workers,
                 write_relative, orig, run, pure, data, tasks, submitted, merged, faults>>

\* one turn of the as_completed loop; after the last one the with block
\* is left, every future being done
Collect(i) ==
  /\ pc = "Collecting"
  /\ task[i].st \in {"done", "raised"}
  /\ results' = Append(results, ResultOf(i, task[i]))
  /\ task' = [task EXCEPT ![i].st = "collected"]
  /\ pc' = IF FetchingOver(task') THEN "Merging" ELSE pc
  /\ UNCHANGED <<fsys, outdirExists, files, outdir, backup, workers,
                 write_relative, orig, run, pure, data, tasks, submitted, merged,
                 exitStatus, faults>>

IsPrefix(p, s) == Len(p) <= Len(s) /\ SubSeq(s, 1, Len(p)) = p

\* str(Path(info).relative_to(input_path.parent)), or str(info) when
\* relative_to raises
RelativeOrAbsolute(path) ==
  IF IsPrefix(InputParent \o <<"/">>, path)
  THEN SubSeq(path, Len(InputParent) + 2, Len(path))
  ELSE path

\* the variant the comment of the else branch mentions: a failure blanks
\* the icon
MergedIconBlank(r, old) ==
  IF r.ok
  THEN IF write_relative THEN RelativeOrAbsolute(r.info.path) ELSE r.info.path
  ELSE <<>>

\* the value the merge loop stores in data[idx]['icon'] for a result
MergedIcon(r, old) ==
  IF r.ok
  THEN IF write_relative THEN RelativeOrAbsolute(r.info.path) ELSE r.info.path
  ELSE old

\* data[idx] = {...}: the record is replaced and loses its title and url
AppliedFresh(d, r) ==
  [d EXCEPT ![r.idx] = [title |-> <<>>, url |-> <<>>,
                        icon |-> MergedIcon(r, d[r.idx].icon)]]

\* data[idx]['icon'] = ... : the record keeps its other fields
Applied(d, r) == [d EXCEPT ![r.idx].icon = MergedIcon(r, d[r.idx].icon)]

\* the two counters of the merge loop after its first `merged` turns
success_count == Cardinality({k \in 1..merged : results[k].ok})
fail_count == Cardinality({k \in 1..merged : ~results[k].ok})

\* one turn of "for idx, ok, info in results"
Merge ==
  /\ pc = "Merging"
  /\ merged < Len(results)
  /\ data' = Applied(data, results[merged + 1])
  /\ merged' = merged + 1
  /\ UNCHANGED <<pc, fsys, outdirExists, files, outdir, backup, workers,
                 write_relative, orig, run, pure, results, tasks, submitted, task,
                 exitStatus, faults>>

(* ------------------------------ persisting ---------------------------- *)
\* the list written straight to input_path
TmpPathIsInput == "input"

\* input_path.with_suffix(input_path.suffix + '.tmp')
TmpPath == "tmp"

\* open(tmp_path, 'w') after the merge loop
PersistOpen ==
  /\ pc = "Merging"
  /\ merged = Len(results)
  /\ \/ /\ fsys' = [fsys EXCEPT ![TmpPath] = PartialFile(<<>>)]
        /\ pc' = "Persisting"
        /\ UNCHANGED <<exitStatus, faults>>
     \/ /\ MayFault
        /\ faults' = faults + 1
        /\ Fail
        /\ UNCHANGED fsys
  /\ UNCHANGED <<outdirExists, files, outdir, backup, workers, write_relative,
                 orig, run, pure, data, results, tasks, submitted, task, merged>>

\* json.dump into the open file and its close, or a failure that leaves
\* the first n records in it
PersistDump ==
  /\ pc = "Persisting"
  /\ \/ /\ fsys' = [fsys EXCEPT ![TmpPath] = ListFile(data)]
        /\ pc' = "Moving"
        /\ UNCHANGED <<exitStatus, faults>>
     \/ /\ MayFault
        /\ faults' = faults + 1
        /\ \E n \in 0..Len(data) :
             fsys' = [fsys EXCEPT ![TmpPath] = PartialFile(SubSeq(data, 1, n))]
        /\ Fail
  /\ UNCHANGED <<outdirExists, files, outdir, backup, workers, write_relative,
                 orig, run, pure, data, results, tasks, submitted, task, merged>>

\* shutil.move(tmp_path, input_path): a rename within one directory, then
\* the return to main
Moved(fs) ==
  IF TmpPath = "input" THEN fs
  ELSE [fs EXCEPT !["input"] = fs[TmpPath], ![TmpPath] = Absent]

PersistMove ==
  /\ pc = "Moving"
  /\ \/ /\ fsys' = Moved(fsys)
        /\ pc' = "Done"
        /\ exitStatus' = 0
        /\ UNCHANGED faults
     \/ /\ MayFault
        /\ faults' = faults + 1
        /\ Fail
        /\ UNCHANGED fsys
  /\ UNCHANGED <<outdirExists, files, outdir, backup, workers, write_relative,
                 orig, run, pure, data, results, tasks, submitted, task, merged>>

(* --------------------------- the specification ------------------------ *)
Next ==
  \/ Loading
  \/ BackingUp
  \/ Partition
  \/ Submit
  \/ \E i \in Indices : TaskStart(i)
  \/ \E i \in Indices : TaskGet(i)
  \/ \E i \in Indices : TaskExists(i)
  \/ \E i \in Indices : TaskOpen(i)
  \/ \E i \in Indices : TaskWrite(i)
  \/ \E i \in Indices : TaskFinish(i)
  \/ \E i \in Indices : Collect(i)
  \/ Merge
  \/ PersistOpen
  \/ PersistDump
  \/ PersistMove

Spec == Init /\ [][Next]_vars

TypeOK ==
  /\ pc \in {"Loading", "BackingUp", "Partition", "Submitting", "Collecting",
             "Merging", "Persisting", "Moving", "Done", "Failed"}
  /\ exitStatus \in {-1, 0, 2}
  /\ faults \in 0..MaxFaults

(* ------------------- runs one after the other ------------------------ *)
\* the program is started again on the same record file, after a run that
\* ended or failed: the files are as that run left them, the record file
\* is read anew, every file of the output directory is now an old one,
\* and the OS-level errors still to come are those the runs before left
Rerun ==
  /\ pc \in {"Done", "Failed"}
  /\ run < MaxRuns
  /\ run' = run + 1
  /\ pc' = "Loading"
  /\ exitStatus' = -1
  /\ orig' = fsys["input"].recs
  /\ data' = <<>>
  /\ results' = <<>>
  /\ tasks' = <<>>
  /\ submitted' = 0
  /\ merged' = 0
  /\ task' = [i \in 1..Len(orig') |-> IdleTask]
  /\ files' = [n \in DOMAIN files |->
                 [files[n] EXCEPT !.openers = {}, !.pre = TRUE]]
  /\ UNCHANGED <<fsys, outdirExists, outdir, backup, workers, write_relative,
                 faults, pure>>

\* runs with backup and one worker on a list of one to MaxRecords plain
\* records, the output directory not yet there
RerunInit ==
  /\ pc = "Loading"
  /\ \E n \in 1..MaxRecords :
       orig = [k \in 1..n |-> [title |-> TitleA, url |-> UrlGood,
                                icon |-> IconUrl]]
  /\ fsys = [p \in {"input", "bak", "tmp"} |->
               IF p = "input" THEN ListFile(orig) ELSE Absent]
  /\ outdirExists = FALSE
  /\ files = EmptyDir
  /\ backup = TRUE /\ write_relative = FALSE /\ outdir = OutdirInside
  /\ workers = 1
  /\ data = <<>>
  /\ results = <<>>
  /\ tasks = <<>>
  /\ submitted = 0
  /\ task = [i \in 1..Len(orig) |-> IdleTask]
  /\ merged = 0
  /\ exitStatus = -1
  /\ faults = 0
  /\ run = 1
  /\ pure = NoCall

RerunNext ==
  \/ Next
  \/ Rerun

RerunSpec == RerunInit /\ [][RerunNext]_vars

(* ----------------------- a run with a slow task ---------------------- *)
\* the record whose request may stay pending for as long as it likes
SlowTask == 1

\* runs of one to MaxRecords plain records with at least one worker, an
\* empty output directory and no OS-level error
SlowInit ==
  /\ pc = "Loading"
  /\ \E n \in 1..MaxRecords :
       orig = [k \in 1..n |-> [title |-> TitleA, url |-> UrlGood,
                                icon |-> IconUrl]]
  /\ fsys = [p \in {"input", "bak", "tmp"} |->
               IF p = "input" THEN ListFile(orig) ELSE Absent]
  /\ outdirExists = FALSE
  /\ files = EmptyDir
  /\ backup = FALSE /\ write_relative = FALSE /\ outdir = OutdirInside
  /\ workers \in 1..MaxWorkers
  /\ data = <<>>
  /\ results = <<>>
  /\ tasks = <<>>
  /\ submitted = 0
  /\ task = [i \in 1..Len(orig) |-> IdleTask]
  /\ merged = 0
  /\ exitStatus = -1
  /\ faults = MaxFaults
  /\ run = 1
  /\ pure = NoCall

\* the main thread and every worker thread get processor time, and every
\* request but the slow one comes back (within the timeout)
SlowFairness ==
  /\ WF_vars(Loading) /\ WF_vars(BackingUp) /\ WF_vars(Partition)
  /\ WF_vars(Submit) /\ WF_vars(Merge)
  /\ WF_vars(PersistOpen) /\ WF_vars(PersistDump) /\ WF_vars(PersistMove)
  /\ \A i \in 1..MaxRecords :
       /\ WF_vars(i \in Indices /\ TaskStart(i))
       /\ WF_vars(i \in Indices /\ TaskExists(i))
       /\ WF_vars(i \in Indices /\ TaskOpen(i))
       /\ WF_vars(i \in Indices /\ TaskWrite(i))
       /\ WF_vars(i \in Indices /\ TaskFinish(i))
       /\ WF_vars(i \in Indices /\ Collect(i))
  /\ \A i \in (1..MaxRecords) \ {SlowTask} :
       WF_vars(i \in Indices /\ TaskGet(i))

SlowSpec == SlowInit /\ [][Next]_vars /\ SlowFairness

(* ------------------ the helper functions on their own ----------------- *)
\* the characters texts are enumerated over: a letter, the Cyrillic
\* letter, whitespace, a control character, the separators, the percent
\* sign with the digits of its escapes, and the dot
TextAlphabet == {"a", "ya", " ", "ctl", "/", "\\", "%", "2", "5", "0", "."}

Rep(c, n) == [k \in 1..n |-> c]

\* texts beyond the enumeration: longer than either cap, cut inside what an
\* escape decodes to, escapes that decode to escapes, and URLs
LongTexts ==
  { Rep("a", SafeMaxLen + 1),
    Rep("a", AsciiMaxLen + 1),
    Rep("a", SafeMaxLen - 1) \o <<"%", "2", "0", "a">>,
    Rep("ya", AsciiMaxLen) \o <<" ">>,
    <<"%", "2", "5", "2", "0">>,
    <<"%", "2", "5", "2", "5">>,
    <<"%", "2", "5", "2", "F">>,
    <<"%", "4", "1", "%", "2", "5", "4", "1">>,
    IconUrl,
    <<"h", ":", "/", "/", "e", "/", "i", ".">>,
    <<"h", ":", "/", "/", "e", "/", "i">>,
    <<"h", ":", "/", "/", "e", "/", "i", ".", "p", "n", "g">>,
    <<"h", ":", "/", "/", "e", "/", "i", ".", "i", "c", "o", "?", "a">>,
    <<"h", ":", "/", "/", "e", "/", "i", ".", "i", "c", "o", "n", "s">>,
    <<"h", ":", "/", "/", "[", "/", "i", ".", "i", "c", "o">> }

PureTexts == SeqsUpTo(TextAlphabet, MaxTextLen) \cup LongTexts

\* normalised Content-Type values: two of the table, one outside it, none
PureContentTypes == {"image/png", "image/x-icon", "text/html", ""}

Called(op, arg, ct, out) ==
  [op |-> op, text |-> pure.text, arg |-> arg, ct |-> ct, out |-> out]

\* no run of process_all is in progress
NoRun ==
  /\ pc = "Done"
  /\ fsys = [p \in {"input", "bak", "tmp"} |-> Absent]
  /\ outdirExists = FALSE
  /\ files = EmptyDir
  /\ outdir = OutdirInside
  /\ backup = FALSE
  /\ workers = 0
  /\ write_relative = FALSE
  /\ orig = <<>>
  /\ data = <<>>
  /\ results = <<>>
  /\ tasks = <<>>
  /\ submitted = 0
  /\ task = <<>>
  /\ merged = 0
  /\ exitStatus = 0
  /\ faults = 0
  /\ run = 1

runVars == <<pc, fsys, outdirExists, files, outdir, backup, workers,
             write_relative, orig, data, results, tasks, submitted, task,
             merged, exitStatus, faults, run>>

PureInit ==
  /\ NoRun
  /\ \E x \in PureTexts :
       pure = [op |-> "input", text |-> x, arg |-> x, ct |-> "", out |-> <<>>]

\* safe_filename_unicode(text)
CallSafe ==
  /\ pure.op = "input"
  /\ pure' = Called("safe", pure.arg, "",
                    safe_filename_unicode(pure.arg, SafeMaxLen))
  /\ UNCHANGED runVars

\* safe_filename_unicode on what it returned
CallSafeAgain ==
  /\ pure.op = "safe"
  /\ pure' = Called("safe_again", pure.out, "",
                    safe_filename_unicode(pure.out, SafeMaxLen))
  /\ UNCHANGED runVars

\* ascii_fallback_name(text), and on the sanitised name as download_icon
\* calls it
CallAscii ==
  /\ pure.op \in {"input", "safe"}
  /\ LET a == IF pure.op = "input" THEN pure.arg ELSE pure.out
     IN  pure' = Called("ascii", a, "", ascii_fallback_name(a, AsciiMaxLen))
  /\ UNCHANGED runVars

\* choose_extension(resp, text), the text being the icon URL
CallExt ==
  /\ pure.op = "input"
  /\ \E ct \in PureContentTypes :
       pure' = Called("ext", pure.arg, ct, choose_extension(ct, pure.arg))
  /\ UNCHANGED runVars

PureNext ==
  \/ CallSafe
  \/ CallSafeAgain
  \/ CallAscii
  \/ CallExt

PureSpec == PureInit /\ [][PureNext]_vars

(* ------------------------------ the claims ---------------------------- *)
\* the outcome of record i, once it is in the result list
HasResult(i) == \E k \in 1..Len(results) : results[k].idx = i
ResultFor(i) == results[CHOOSE k \in 1..Len(results) : results[k].idx = i]
Failed(i) == HasResult(i) /\ ~ResultFor(i).ok
Succeeded(i) == HasResult(i) /\ ResultFor(i).ok

\* the task of record i has returned a path
TaskOk(i) == task[i].st \in {"done", "collected"} /\ task[i].ok

\* the name within the output directory of a resolved path
NameOf(path) == SubSeq(path, Len(outdir) + 2, Len(path))
InOutdir(path) == IsPrefix(outdir \o <<"/">>, path)

\* C1: two tasks of one run that both return a path return two different
\* paths, and no file of the output directory is opened for writing by more
\* than one task of the run.
C1_DistinctFilesNoOverwrite ==
  /\ \A i, j \in Indices :
       (i # j /\ TaskOk(i) /\ TaskOk(j)) => task[i].info.path # task[j].info.path
  /\ \A n \in DOMAIN files : Cardinality(files[n].openers) <= 1

\* C2: a record whose outcome is a failure has, in memory and in the record
\* file, the icon it had in the input file.
C2_FailureKeepsIcon ==
  \A i \in Indices :
    Failed(i) =>
      /\ data[i].icon = orig[i].icon
      /\ fsys["input"].recs[i].icon = orig[i].icon

\* C2 witness: the run is done, the record file is rewritten with the icon
\* of one record replaced, and another record failed with a write error
\* after the fallback.
C2_Witness ==
  /\ pc = "Done"
  /\ fsys["input"].recs # orig
  /\ \E i \in Indices : Failed(i) /\ ResultFor(i).info.kind = "write_error"

\* C3: at Done, in absolute-path mode, the icon of every successful record
\* is a path of the output directory whose file holds the whole body of
\* that record's response.
C3_SuccessFileHoldsBody ==
  (pc = "Done" /\ ~write_relative) =>
    \A i \in Indices :
      Succeeded(i) =>
        /\ fsys["input"].recs[i].icon = ResultFor(i).info.path
        /\ InOutdir(ResultFor(i).info.path)
        /\ NameOf(ResultFor(i).info.path) \in DOMAIN files
        /\ files[NameOf(ResultFor(i).info.path)].content = Body(i)

\* the records of s and t agree in number and, index by index, in title
\* and url
SameButIcons(s, t) ==
  /\ Len(s) = Len(t)
  /\ \A i \in 1..Len(s) : s[i].title = t[i].title /\ s[i].url = t[i].url

\* C4: the list in memory, the list written to the temporary file and the
\* list in the record file have the records of the input, index by index,
\* with only the icon possibly different.
C4_SameRecordsSameOrder ==
  /\ pc \notin {"Loading", "Failed"} => SameButIcons(data, orig)
  /\ pc = "Moving" => SameButIcons(fsys[TmpPath].recs, orig)
  /\ pc = "Done" => /\ fsys["input"].kind = "list"
                    /\ fsys["input"].complete
                    /\ SameButIcons(fsys["input"].recs, orig)

\* C4 witness: the run is done after two tasks for records of different
\* titles completed in the order opposite to their indices, the later one
\* with a path.
C4_Witness ==
  /\ pc = "Done"
  /\ Len(results) = 2
  /\ results[1].idx > results[2].idx
  /\ results[1].ok
  /\ orig[1].title # orig[2].title

\* C5: a record whose icon is empty after strip() is never handed to the
\* pool (so it makes no request and opens no file), its outcome is
\* no_icon_url from the partition on, and its icon is never changed.
C5_EmptyIconNotDispatched ==
  \A i \in Indices :
    Strip(orig[i].icon) = <<>> =>
      /\ task[i].st = "none"
      /\ \A n \in DOMAIN files : i \notin files[n].openers
      /\ \A k \in 1..Len(tasks) : tasks[k] # i
      /\ pc \notin {"Loading", "BackingUp", "Partition", "Failed"} =>
           /\ Cardinality({k \in 1..Len(results) : results[k].idx = i}) = 1
           /\ ResultFor(i) = NoIconResult(i)
           /\ data[i].icon = orig[i].icon
      /\ fsys["input"].recs[i].icon = orig[i].icon

\* C5 witness: the run is done with a record of blank icon next to a
\* record that got a path.
C5_Witness ==
  /\ pc = "Done"
  /\ \E i, j \in Indices : Strip(orig[i].icon) = <<>> /\ Succeeded(j)

\* C6: the record file is whole at every moment: it is as the run found
\* it, or, once the run is done, it is the complete new list.
C6_RecordFileNeverPartial ==
  \/ /\ fsys["input"] \in {Absent, NotAList}
     /\ pc \in {"Loading", "Failed"}
  \/ fsys["input"] = ListFile(orig)
  \/ pc = "Done" /\ fsys["input"] = ListFile(data)

\* C6 witness: json.dump failed after writing part of a changed list, and
\* the record file still holds the original.
C6_Witness ==
  /\ pc = "Failed"
  /\ ~fsys["tmp"].complete
  /\ Len(fsys["tmp"].recs) >= 1
  /\ data # orig
  /\ fsys["input"] = ListFile(orig)

\* between the first submit and the merge the run does not fail
C7_NoAbortWhileFetching ==
  pc \in {"Submitting", "Collecting"} =>
    (pc' \in {"Submitting", "Collecting", "Merging"} /\ exitStatus' = -1)

\* from the merge on, one outcome for each record and no task left
C7_OneOutcomeEach ==
  pc \in {"Merging", "Persisting", "Moving", "Done"} =>
    \A i \in Indices :
      /\ Cardinality({k \in 1..Len(results) : results[k].idx = i}) = 1
      /\ task[i].st \in {"none", "collected"}

\* the exception of a future is appended as a failure of its own index
C7_RaisedBecomesFailure ==
  \A i \in Indices :
    (task[i].st = "raised" /\ task'[i].st = "collected") =>
      /\ Len(results') = Len(results) + 1
      /\ results'[Len(results')].idx = i
      /\ ~results'[Len(results')].ok

\* C7: while tasks are submitted and collected the run cannot fail and the
\* exit status stays unset, whatever the tasks do; from the merge on every
\* record has exactly one outcome, a raised task a failure; at Done the exit
\* status is 0.
C7_TaskFailureNeverAborts ==
  /\ [][C7_NoAbortWhileFetching]_vars
  /\ [](C7_OneOutcomeEach)
  /\ [][C7_RaisedBecomesFailure]_vars
  /\ [](pc = "Done" => exitStatus = 0)

\* C7 witness: the run is done with exit status 0, two tasks were
\* dispatched, one raised inside download_icon, and no task got a path.
C7_Witness ==
  /\ pc = "Done"
  /\ exitStatus = 0
  /\ Len(tasks) = 2
  /\ \A i \in Indices : Failed(i)
  /\ \E i \in Indices : ResultFor(i).info.kind = "exception"

\* C8: with backup, the .bak file is the complete original as soon as a
\* task is submitted, a record differs from the input, the temporary file
\* exists or the record file is changed; without backup there is no .bak.
C8_BackupBeforeAnyMutation ==
  /\ (backup /\ \/ submitted > 0
                \/ \E i \in 1..Len(data) : data[i] # orig[i]
                \/ fsys["tmp"] # Absent
                \/ pc \in {"Merging", "Persisting", "Moving", "Done"})
       => fsys["bak"] = ListFile(orig)
  /\ ~backup => fsys["bak"] = Absent

\* C8 witness: with backup, the first task has just been submitted and no
\* task has started.
C8_Witness ==
  /\ backup
  /\ submitted = 1
  /\ \E i \in Indices : task[i].st = "queued"
  /\ fsys["bak"] = ListFile(orig)

\* C9: the tasks started and not returned are never more than --workers.
C9_AtMostWorkersRunning == Running <= workers

\* C9 witness: every worker is busy and a submitted task waits in the queue.
C9_Witness ==
  /\ workers >= 1
  /\ Running = workers
  /\ \E i \in Indices : task[i].st = "queued"

\* a step that changes the list in memory is a step of the merge loop
C10_DataChangesOnlyInMerge ==
  (pc # "Loading" /\ data' # data) =>
    /\ pc = "Merging"
    /\ \A k \in 1..Len(tasks) : task[tasks[k]].st = "collected"
    /\ Running = 0
    /\ \A i \in Indices : task[i].st \in {"none", "collected"}

\* the temporary file is opened from the end of the merge loop
C10_PersistAfterMerge ==
  (pc' = "Persisting" /\ pc # "Persisting") =>
    /\ pc = "Merging"
    /\ merged = Len(results)
    /\ Len(results) = Len(data)

\* after that the run only moves on
C10_PersistOnce ==
  pc \in {"Persisting", "Moving", "Done", "Failed"} =>
    pc' \in {pc, "Moving", "Done", "Failed"}

\* C10: a record of the list in memory changes only in the merge loop,
\* when every task has been collected and none runs; the temporary file is
\* opened only from the merge loop after the last result was applied, and
\* never again afterwards.
C10_MergeAfterAllTasks ==
  /\ [][C10_DataChangesOnlyInMerge]_vars
  /\ [][C10_PersistAfterMerge]_vars
  /\ [][C10_PersistOnce]_vars

\* C10 witness: the temporary file is open after a merge that changed the
\* icon of one of two dispatched records.
C10_Witness ==
  /\ pc = "Persisting"
  /\ Len(tasks) = 2
  /\ \E i \in Indices : data[i].icon # orig[i].icon

\* a record file that is missing or not a list: the run is still loading or
\* has failed with status 2, and has made no backup, queued no task,
\* produced no outcome and written no temporary file
C11_NothingStarted ==
  fsys["input"].kind # "list" =>
    /\ pc \in {"Loading", "Failed"}
    /\ pc = "Failed" => exitStatus = 2
    /\ fsys["bak"] = Absent
    /\ fsys["tmp"] = Absent
    /\ data = <<>> /\ results = <<>> /\ tasks = <<>> /\ submitted = 0
    /\ \A i \in Indices : task[i].st = "none"
    /\ \A n \in DOMAIN files : files[n].openers = {}

\* no step of such a run touches the record file
C11_RecordFileUntouched ==
  fsys["input"].kind # "list" => fsys'["input"] = fsys["input"]

\* C11: when the record file is missing or its top-level JSON value is not
\* a list, the run goes from Loading to Failed and nothing else happens: no
\* backup file, no task dispatched, no temporary file, and the record file
\* (when there is one) stays as it was.
C11_BadInputFailsInLoading ==
  /\ [](C11_NothingStarted)
  /\ [][C11_RecordFileUntouched]_vars

\* C11 witness: with backup enabled, a record file that holds a JSON value
\* other than a list has made the run fail.
C11_Witness ==
  /\ pc = "Failed"
  /\ backup
  /\ fsys["input"] = NotAList
  /\ fsys["bak"] = Absent

\* a SanitizedName: not empty, no path separator, no whitespace or control
\* character, and no longer than the cap
IsSanitizedName(s, cap) ==
  /\ s # <<>>
  /\ Len(s) <= cap
  /\ \A k \in 1..Len(s) :
       s[k] \notin {"/", "\\"} /\ ~IsSpace(s[k]) /\ ~IsControl(s[k])

\* C12: whatever the text, safe_filename_unicode returns a SanitizedName of
\* at most 120 characters and ascii_fallback_name one of at most 80.
C12_SanitizersReturnValidNames ==
  /\ pure.op \in {"safe", "safe_again"} => IsSanitizedName(pure.out, SafeMaxLen)
  /\ pure.op = "ascii" => IsSanitizedName(pure.out, AsciiMaxLen)

\* C12 witness: a text of blanks and separators over the cap of the ASCII
\* function, cut to the cap by it.
C12_Witness ==
  /\ pure.op = "ascii"
  /\ Len(pure.text) > AsciiMaxLen
  /\ Len(pure.out) = AsciiMaxLen

\* C13: safe_filename_unicode applied to its own result returns that result.
C13_SafeNameIdempotent ==
  pure.op = "safe_again" => pure.out = pure.arg

\* C13 witness: the second call on the name of a text that was over the
\* cap and held an escape.
C13_Witness ==
  /\ pure.op = "safe_again"
  /\ Len(pure.text) > SafeMaxLen
  /\ \E k \in 1..Len(pure.text) : pure.text[k] = "%"
  /\ Len(pure.arg) = SafeMaxLen

\* C14: choose_extension returns a dot followed by at least one character,
\* and the entry of the table for the Content-Type when there is one.
C14_RealExtension ==
  pure.op = "ext" =>
    /\ Len(pure.out) >= 2
    /\ pure.out[1] = "."
    /\ pure.ct \in ContentTypes => pure.out = CONTENT_TYPE_EXT(pure.ct)

\* a step of task i out of open() or the write loop of its first attempt:
\* it goes on, returns the path, or starts the second attempt, which has
\* the ASCII name, the same extension and the collision search from its
\* beginning
C15_FirstAttemptStep(i) ==
  (task[i].att = 1 /\ task[i].st \in {"open", "write"} /\ task'[i] # task[i]) =>
    \/ task'[i].st = "write" /\ task'[i].att = 1
    \/ task'[i].st = "done" /\ task'[i].ok /\ task'[i].att = 1
    \/ /\ task'[i].st = "exists"
       /\ task'[i].att = 2
       /\ task'[i].name = ascii_fallback_name(task[i].name, AsciiMaxLen)
       /\ task'[i].ext = task[i].ext
       /\ task'[i].idx = 1
       /\ task'[i].path = task'[i].name \o task[i].ext

\* a step of task i within its second attempt: the search goes on to a
\* path that is not in the directory, the write goes on, the path is
\* returned, or write_error is returned; there is no further attempt
C15_SecondAttemptStep(i) ==
  (task[i].att = 2 /\ task'[i] # task[i]) =>
    /\ task'[i].att = 2
    /\ task'[i].name = task[i].name
    /\ \/ task[i].st = "exists" /\ task'[i].st = "exists"
       \/ /\ task[i].st = "exists" /\ task'[i].st = "open"
          /\ task[i].path \notin DOMAIN files
       \/ task[i].st \in {"open", "write"} /\ task'[i].st = "write"
       \/ /\ task[i].st = "write" /\ task'[i].st = "done" /\ task'[i].ok
          /\ task'[i].info = [kind |-> "path", path |-> Resolved(task[i].path)]
          /\ IsPrefix(task[i].name, task[i].path)
       \/ /\ task[i].st \in {"open", "write"} /\ task'[i].st = "done"
          /\ ~task'[i].ok
          /\ task'[i].info.kind = "write_error"
       \/ task[i].st = "done" /\ task'[i].st = "collected"

C15_Steps == \A i \in Indices : C15_FirstAttemptStep(i) /\ C15_SecondAttemptStep(i)

\* C15: an OS-level error of the first open or write starts exactly one
\* second attempt with the name from ascii_fallback_name and the collision
\* search repeated; the second attempt ends in Success with the fallback
\* path or in Failure(WriteError), never in a third attempt.
C15_FallbackRetriesOnce ==
  /\ [][C15_Steps]_vars
  /\ [](\A i \in Indices : task[i].att \in 0..2)

\* C15 witness: a title outside ASCII was refused, the second attempt ran
\* under the name 'file' and returned its path.
C15_Witness ==
  \E i \in Indices :
    /\ TaskOk(i)
    /\ task[i].att = 2
    /\ orig[i].title = TitleCyrillic
    /\ task[i].info.path = Resolved(<<"f", "i", "l", "e">> \o task[i].ext)

\* the files task i has opened for writing
OpenedBy(i) == {n \in DOMAIN files : i \in files[n].openers}

\* a task that got no status 200 has opened no file, one in its first
\* attempt at most one, one in its second attempt at most two
C16_FilesOfTask ==
  \A i \in Indices :
    /\ task[i].att = 0 => OpenedBy(i) = {}
    /\ task[i].att = 1 => Cardinality(OpenedBy(i)) <= 1
    /\ task[i].att = 2 => Cardinality(OpenedBy(i)) <= 2
    /\ (task[i].st = "raised"
          \/ task[i].info.kind \in {"no_icon_url", "error", "http"})
         => task[i].att = 0

\* a file comes into the directory by the open() of one task that has
\* got status 200, and a step of a task leaves the list in memory alone
C16_TaskStep ==
  /\ DOMAIN files' # DOMAIN files =>
       \E i \in Indices :
         /\ task[i].st = "open" /\ task[i].att \in {1, 2}
         /\ task'[i].st = "write"
         /\ DOMAIN files' = DOMAIN files \cup {task[i].path}
  /\ task' # task => (pc = "Loading" \/ data' = data)

\* C16: a task opens at most one file, and one more only as the file of a
\* first attempt that its fallback has superseded; a task whose response
\* was not status 200 opens none; no step of a task changes the records.
C16_TaskEffectsBounded ==
  /\ [](C16_FilesOfTask)
  /\ [][C16_TaskStep]_vars

\* C16 witness: one task has returned the path of its second file, its
\* first one left behind, and another task got status 404 and has no file.
C16_Witness ==
  \E i, j \in Indices :
    /\ TaskOk(i)
    /\ task[i].att = 2
    /\ Cardinality(OpenedBy(i)) = 2
    /\ task[j].info.kind = "http"
    /\ OpenedBy(j) = {}

\* download_icon has returned or raised for record j
Produced(j) ==
  j \in Indices /\ task[j].st \in {"done", "raised", "collected"}

\* C17 as stated: whatever the worker count, every queued task other than
\* the slow one gets its outcome without the slow request coming back.
C17_SlowTaskBlocksNoOne ==
  \A j \in (1..MaxRecords) \ {SlowTask} :
    (j \in Indices /\ task[j].st = "queued") ~> Produced(j)

\* C17: with more workers than slow requests (two or more workers here,
\* one slow request), every queued task other than the slow one gets its
\* outcome without the slow request coming back; the slow task holds up
\* only the end of Fetching.
C17_SlowTaskBlocksNoOneWithFreeWorker ==
  \A j \in (1..MaxRecords) \ {SlowTask} :
    (workers >= 2 /\ j \in Indices /\ task[j].st = "queued") ~> Produced(j)

\* C17 witness: the slow request is pending, another task has returned its
\* path meanwhile, and the run is still collecting.
C17_Witness ==
  /\ workers >= 2
  /\ task[SlowTask].st = "get"
  /\ \E j \in Indices : j # SlowTask /\ TaskOk(j)
  /\ pc = "Collecting"

\* the outcome at place k of the list is the one of its own index: the
\* mark of the partition loop for a record without icon URL, and what the
\* task of that index returned or raised otherwise
C18_OwnOutcome(k) ==
  LET r == results[k]
      i == r.idx
  IN  /\ i \in Indices
      /\ IF Strip(orig[i].icon) = <<>>
         THEN r = [idx |-> i, ok |-> FALSE,
                   info |-> [kind |-> "no_icon_url", path |-> <<>>]]
         ELSE /\ task[i].st = "collected"
              /\ r.ok = task[i].ok
              /\ \/ r.info = task[i].info
                 \/ task[i].info = NoInfo /\ r.info.kind = "exception"

\* C18: once Fetching is over the result list holds one outcome for every
\* record index, none twice, each the outcome of its own index; after the
\* merge loop the two counters add up to the number of records and the
\* success counter is the number of records whose icon was rewritten.
C18_OneOutcomePerRecord ==
  pc \in {"Merging", "Persisting", "Moving", "Done"} =>
    /\ Len(results) = Len(orig)
    /\ \A i \in Indices :
         Cardinality({k \in 1..Len(results) : results[k].idx = i}) = 1
    /\ \A k \in 1..Len(results) : C18_OwnOutcome(k)
    /\ pc # "Merging" =>
         /\ success_count + fail_count = Len(data)
         /\ success_count =
              Cardinality({i \in Indices : data[i].icon # orig[i].icon})

\* C18 witness: of two dispatched tasks the second was collected first; one
\* succeeded, one failed, and the run is done.
C18_Witness ==
  /\ pc = "Done"
  /\ Len(tasks) = 2
  /\ results[1].idx = 2
  /\ success_count = 1
  /\ fail_count = 1

\* C19: a file that was in the output directory before the run is opened
\* by no task, in no attempt, and keeps its content; a file with more than
\* one opener is a file of this run.
C19_OldFilesNeverOpened ==
  \A n \in DOMAIN files :
    /\ files[n].pre => files[n].openers = {} /\ files[n].content = OldContent
    /\ Cardinality(files[n].openers) >= 2 => ~files[n].pre

\* C19 witness: the directory held a.ico before the run; a task with the
\* title 'a' has returned the path of its second attempt, at least the
\* third candidate of that name, and the old file is as it was.
C19_Witness ==
  /\ OldName \in DOMAIN files
  /\ files[OldName] = OldFile
  /\ \E i \in Indices :
       /\ TaskOk(i)
       /\ task[i].att = 2
       /\ task[i].name = TitleA
       /\ task[i].idx >= 3

C20_BackupAfterRun ==
  pc \in {"Done", "Failed"} =>
    \/ fsys["bak"] = ListFile(orig)
    \/ /\ ~fsys["bak"].complete
       /\ pc = "Failed"
       /\ submitted = 0
       /\ results = <<>>
       /\ fsys["input"] = ListFile(orig)

\* the .bak file changes only in the copy of a run, which puts the current
\* record file, or the beginning of it, in the place of what was there
C20_BackupStep ==
  fsys'["bak"] # fsys["bak"] =>
    /\ pc = "BackingUp"
    /\ fsys["input"] = ListFile(orig)
    /\ fsys'["bak"] = ListFile(orig) \/ ~fsys'["bak"].complete

====
